---- MODULE Spec2Model ----
(***************************************************************************)
(* A model of the data pool of libmaxminddb (src/src/data-pool.c,          *)
(* src/src/data-pool.h): a pool of MMDB_entry_data_list_s structs carved   *)
(* out of blocks of doubling capacity, and the linked list built from them.*)
(*                                                                         *)
(* The heap is a sequence of allocations: calloc appends one and returns   *)
(* its position, free marks it dead and counts the call.  A pointer to an  *)
(* allocation is its position (NULL is 0); a pointer to a list element is  *)
(* <<block, offset>>.  size_t has SizeBits bits.  One caller drives one    *)
(* pool through its life: data_pool_new, data_pool_alloc,                  *)
(* data_pool_destroy, data_pool_list_destroy.                              *)
(***************************************************************************)
EXTENDS Integers, Sequences, FiniteSets, TLC

VARIABLES
    heap,      \* the allocations: [kind, n, live, frees]
    P,         \* the caller's MMDB_data_pool_s *, NULL when it holds none
    pool,      \* the fields of *P
    dir,       \* the contents of pool->blocks
    nodes,     \* the contents of every block: block -> offset -> element
    phase,     \* the caller's position: "none", "live", "detached", "done"
    returned,  \* the elements data_pool_alloc returned, in call order
    call,      \* the last call: its arguments, allocator answers and result
    tick,      \* flips on every call
    ub,        \* the undefined operations performed so far
    ncreate    \* the number of data_pool_new calls so far

vars == <<heap, P, pool, dir, nodes, phase, returned, call, tick, ub, ncreate>>

\* ---------------------------------------------------------------- sizes
\* The width of size_t, scaled down so that overflow is within reach.
SizeBits == 5
SIZE_MAX == 2^SizeBits - 1
\* sizeof(MMDB_entry_data_list_s), scaled down.
NodeSize == 2
\* sizeof(MMDB_entry_data_list_s *), scaled down.
PtrSize == 1
\* sizeof(MMDB_data_pool_s): a pointer and four size_t.
PoolSize == 5 * PtrSize
\* pool->count, the number of slots of the block directory, scaled down from
\* the code's 32 so that the last slot is within reach.
COUNT == 3
\* The caller gives up after this many data_pool_new calls.
MaxCreate == 1

NULL == 0
NullNode == <<NULL, 0>>

\* ------------------------------------------------------------- the heap
\* calloc(n, sz): NULL when the allocator has no memory or n * sz does not
\* fit size_t, else a fresh zeroed allocation.
Calloc(h, kind, n, sz, fail) ==
    IF fail \/ n * sz > SIZE_MAX
    THEN [heap |-> h, ptr |-> NULL]
    ELSE [heap |-> Append(h, [kind |-> kind, n |-> n, live |-> TRUE, frees |-> 0]),
          ptr |-> Len(h) + 1]

\* free(p): a no-op on NULL.
Free(h, p) ==
    IF p = NULL THEN h ELSE [h EXCEPT ![p].live = FALSE, ![p].frees = @ + 1]

\* A zeroed MMDB_entry_data_list_s.
ZeroNode == [head |-> FALSE, next |-> NullNode, data |-> 0]
\* A zeroed block of n elements.
ZeroBlock(n) == [i \in 0 .. n - 1 |-> ZeroNode]
\* A zeroed MMDB_data_pool_s.
ZeroPool == [blocks |-> NULL, count |-> 0, index |-> 0, size |-> 0, used |-> 0]
\* A zeroed block directory of n slots.
ZeroDir(n) == [i \in 0 .. n - 1 |-> NULL]
NoDir == ZeroDir(0)

Deref(nd, e) == nd[e[1]][e[2]]

\* e points into a block that was allocated.
InBlock(nd, e) == e[1] \in DOMAIN nd /\ e[2] \in DOMAIN nd[e[1]]

SetNext_forgotten(nd, prev, element) == nd

\* prev->next = element
SetNext(nd, prev, element) ==
    IF InBlock(nd, prev) THEN [nd EXCEPT ![prev[1]][prev[2]].next = element] ELSE nd

SetHead_forgotten(nd, b) == nd

\* pool->blocks[i]->head = true, b being pool->blocks[i]
SetHead(nd, b) == [nd EXCEPT ![b][0].head = TRUE]

\* pool->blocks[i] = p: a write past the directory when i is no slot of it.
StoreDir(d, i, p) ==
    IF i \in DOMAIN d THEN [d EXCEPT ![i] = p] ELSE (i :> p) @@ d

\* ------------------------------------------------------- the overflow guard
can_multiply_unchecked(max, m, n) == TRUE

can_multiply_zero_ok(max, m, n) ==
    IF m = 0 THEN TRUE ELSE n <= max \div m

can_multiply_strict(max, m, n) ==
    IF m = 0 THEN FALSE ELSE n < max \div m

can_multiply(max, m, n) ==
    IF m = 0 THEN FALSE ELSE n <= max \div m

\* ------------------------------------------------------ data_pool_destroy
\* for (i = 0; i <= pool->index; i++) free(pool->blocks[i]);
RECURSIVE FreeBlocks(_, _, _, _)
FreeBlocks_short(h, d, i, last) ==
    IF i >= last THEN h ELSE FreeBlocks(Free(h, d[i]), d, i + 1, last)

FreeBlocks(h, d, i, last) ==
    IF i > last THEN h ELSE FreeBlocks(Free(h, d[i]), d, i + 1, last)

data_pool_destroy_inverted(h, p, pl, d, keep_list) ==
    IF p = NULL THEN h
    ELSE LET h1 == IF pl.blocks # NULL
                   THEN Free(IF keep_list THEN FreeBlocks(h, d, 0, pl.index) ELSE h,
                             pl.blocks)
                   ELSE h
         IN  Free(h1, p)

data_pool_destroy_leak(h, p, pl, d, keep_list) ==
    IF p = NULL THEN h
    ELSE Free(IF pl.blocks # NULL /\ ~keep_list
              THEN FreeBlocks(h, d, 0, pl.index) ELSE h, p)

\* The heap after data_pool_destroy(p, keep_list), pl being *p and d the
\* contents of pl.blocks.
data_pool_destroy(h, p, pl, d, keep_list) ==
    IF p = NULL THEN h
    ELSE LET h1 == IF pl.blocks # NULL
                   THEN Free(IF ~keep_list THEN FreeBlocks(h, d, 0, pl.index) ELSE h,
                             pl.blocks)
                   ELSE h
         IN  Free(h1, p)

\* ---------------------------------------------------------- data_pool_new
\* oom names the calloc of this call that finds no memory (0: none).
data_pool_new(h, nd, size, oom) ==
    LET Fail(hh, why) ==
            [heap |-> hh, ret |-> NULL, pool |-> ZeroPool, dir |-> NoDir,
             nodes |-> nd, why |-> why]
        c1 == Calloc(h, "pool", 1, PoolSize, oom = 1)
        p == c1.ptr
        pl1 == [ZeroPool EXCEPT !.count = COUNT]
        c2 == Calloc(c1.heap, "dir", pl1.count, PtrSize, oom = 2)
        pl2 == [pl1 EXCEPT !.blocks = c2.ptr]
        d2 == ZeroDir(pl1.count)
        pl3 == [pl2 EXCEPT !.size = size]
        c3 == Calloc(c2.heap, "block", pl3.size, NodeSize, oom = 3)
        d3 == [d2 EXCEPT ![pl3.index] = c3.ptr]
    IN  IF p = NULL THEN Fail(h, "nomem")
        ELSE IF ~can_multiply(SIZE_MAX, pl1.count, PtrSize)
        THEN Fail(data_pool_destroy(c1.heap, p, pl1, NoDir, FALSE), "overflow")
        ELSE IF c2.ptr = NULL
        THEN Fail(data_pool_destroy(c1.heap, p, pl1, NoDir, FALSE), "nomem")
        ELSE IF size = 0
        THEN Fail(data_pool_destroy(c2.heap, p, pl2, d2, FALSE), "zero")
        ELSE IF ~can_multiply(SIZE_MAX, size, NodeSize)
        THEN Fail(data_pool_destroy(c2.heap, p, pl2, d2, FALSE), "overflow")
        ELSE IF c3.ptr = NULL
        THEN Fail(data_pool_destroy(c3.heap, p, pl3, d3, FALSE), "nomem")
        ELSE [heap |-> c3.heap, ret |-> p, pool |-> pl3, dir |-> d3,
              nodes |-> SetHead((c3.ptr :> ZeroBlock(pl3.size)) @@ nd, d3[pl3.index]),
              why |-> "ok"]

\* -------------------------------------------------------- data_pool_alloc
DoubleSize_added(size) == (size + 2) % (SIZE_MAX + 1)

\* pool->size * 2, in size_t
DoubleSize(size) == (size * 2) % (SIZE_MAX + 1)

DirectoryFull_late(pl, new_index) == new_index > pl.count

\* new_index == pool->count
DirectoryFull(pl, new_index) == new_index = pl.count

AllocFail_advanced(h, pl, d, nd, why) ==
    [heap |-> h, pool |-> [pl EXCEPT !.index = @ + 1], dir |-> d, nodes |-> nd,
     ret |-> NullNode, why |-> why, ub |-> {}]

\* A return NULL of data_pool_alloc: nothing has been written.
AllocFail(h, pl, d, nd, why) ==
    [heap |-> h, pool |-> pl, dir |-> d, nodes |-> nd, ret |-> NullNode,
     why |-> why, ub |-> {}]

\* fail tells whether calloc, if this call reaches it, finds no memory.
data_pool_alloc(h, pl, d, nd, fail) ==
    LET new_index == (pl.index + 1) % (SIZE_MAX + 1)
        new_size == DoubleSize(pl.size)
        c == Calloc(h, "block", new_size, NodeSize, fail)
        d1 == StoreDir(d, new_index, c.ptr)
        nd1 == SetHead((c.ptr :> ZeroBlock(new_size)) @@ nd, d1[new_index])
        pl1 == [pl EXCEPT !.index = new_index]
        prev == <<d1[pl1.index - 1], pl1.size - 1>>
        pl2 == [pl1 EXCEPT !.size = new_size]
        element == <<d1[pl2.index], 0>>
    IN  IF pl.used < pl.size
        THEN LET elem == <<d[pl.index], pl.used>>
                 before == <<d[pl.index], pl.used - 1>>
             IN  [heap |-> h,
                  pool |-> [pl EXCEPT !.used = @ + 1],
                  dir |-> d,
                  nodes |-> IF pl.used > 0 THEN SetNext(nd, before, elem) ELSE nd,
                  ret |-> elem, why |-> "ok",
                  ub |-> IF InBlock(nd, elem) THEN {} ELSE {"out_of_bounds"}]
        ELSE IF DirectoryFull(pl, new_index) THEN AllocFail(h, pl, d, nd, "directory")
        ELSE IF ~can_multiply(SIZE_MAX, pl.size, 2) THEN AllocFail(h, pl, d, nd, "double")
        ELSE IF ~can_multiply(SIZE_MAX, new_size, NodeSize)
        THEN AllocFail(h, pl, d, nd, "bytes")
        ELSE IF c.ptr = NULL THEN AllocFail(h, pl, d, nd, "nomem")
        ELSE [heap |-> c.heap,
              pool |-> [pl2 EXCEPT !.used = 1],
              dir |-> d1,
              nodes |-> SetNext(nd1, prev, element),
              ret |-> element, why |-> "grow",
              ub |-> IF new_index \in DOMAIN d /\ InBlock(nd1, prev)
                     THEN {} ELSE {"out_of_bounds"}]

\* ------------------------------------------------- data_pool_list_destroy
\* A read of element e: undefined when its block has been freed.
ReadUB(h, e) == IF h[e[1]].live THEN {} ELSE {"use_after_free"}

FreeNode_forgotten(h, e) == h

\* free(e): undefined unless e is the start of a live allocation.
FreeNode(h, e) ==
    IF e[2] = 0 THEN Free(h, e[1]) ELSE h
FreeUB(h, e) ==
    IF e[2] # 0 THEN {"bad_free"}
    ELSE IF ~h[e[1]].live THEN {"double_free"} ELSE {}

data_pool_get_list_head_noscan(h, nd, list) == [head |-> list, ub |-> {}]

\* The first element from list on whose head flag is set, NULL if none.
RECURSIVE data_pool_get_list_head(_, _, _)
data_pool_get_list_head(h, nd, list) ==
    IF list = NullNode THEN [head |-> NullNode, ub |-> {}]
    ELSE IF Deref(nd, list).head THEN [head |-> list, ub |-> ReadUB(h, list)]
    ELSE LET r == data_pool_get_list_head(h, nd, Deref(nd, list).next)
         IN  [head |-> r.head, ub |-> r.ub \cup ReadUB(h, list)]

RECURSIVE list_destroy_loop(_, _, _, _)
list_destroy_loop_free_first(h, nd, element, u) ==
    IF element = NullNode THEN [heap |-> h, ret |-> TRUE, ub |-> u]
    ELSE IF ~Deref(nd, element).head
    THEN [heap |-> h, ret |-> FALSE, ub |-> u \cup ReadUB(h, element)]
    ELSE LET freed == FreeNode(h, element)
             next_element ==
                 data_pool_get_list_head(freed, nd, Deref(nd, element).next)
         IN  list_destroy_loop(freed, nd, next_element.head,
                               u \cup ReadUB(freed, element) \cup next_element.ub
                                 \cup FreeUB(h, element))

\* while (element) { ... }, u being the undefined operations so far
list_destroy_loop(h, nd, element, u) ==
    IF element = NullNode THEN [heap |-> h, ret |-> TRUE, ub |-> u]
    ELSE IF ~Deref(nd, element).head
    THEN [heap |-> h, ret |-> FALSE, ub |-> u \cup ReadUB(h, element)]
    ELSE LET next_element == data_pool_get_list_head(h, nd, Deref(nd, element).next)
         IN  list_destroy_loop(FreeNode(h, element), nd, next_element.head,
                               u \cup ReadUB(h, element) \cup next_element.ub
                                 \cup FreeUB(h, element))

data_pool_list_destroy(h, nd, list) == list_destroy_loop(h, nd, list, {})

\* ------------------------------------------------------------ the caller
NoCall ==
    [op |-> "none", size |-> 0, keep |-> FALSE, ptr |-> NULL, list |-> NullNode,
     oom |-> 0, ok |-> FALSE, node |-> NullNode, why |-> "none",
     max |-> 0, m |-> 0, n |-> 0]

Range(s) == {s[i] : i \in DOMAIN s}
Last(s) == s[Len(s)]

Init ==
    /\ heap = <<>>
    /\ P = NULL
    /\ pool = ZeroPool
    /\ dir = NoDir
    /\ nodes = <<>>
    /\ phase = "none"
    /\ returned = <<>>
    /\ call = NoCall
    /\ tick = 0
    /\ ub = {}
    /\ ncreate = 0

\* P = data_pool_new(size)
New ==
    /\ phase = "none"
    /\ ncreate < MaxCreate
    /\ \E size \in 0 .. SIZE_MAX, oom \in 0 .. 3 :
          LET r == data_pool_new(heap, nodes, size, oom)
          IN  /\ heap' = r.heap
              /\ P' = r.ret
              /\ pool' = r.pool
              /\ dir' = r.dir
              /\ nodes' = r.nodes
              /\ phase' = IF r.ret = NULL THEN "none" ELSE "live"
              /\ call' = [NoCall EXCEPT !.op = "new", !.size = size, !.oom = oom,
                                         !.ptr = r.ret, !.ok = (r.ret # NULL),
                                         !.why = r.why]
    /\ ncreate' = ncreate + 1
    /\ tick' = 1 - tick
    /\ UNCHANGED <<returned, ub>>

\* The decoder has filled in every element it was given before it asks for
\* the next one.
Populated ==
    IF returned = <<>> THEN TRUE ELSE Deref(nodes, Last(returned)).data # 0

\* element = data_pool_alloc(P)
Alloc ==
    /\ phase = "live"
    /\ Populated
    /\ \E fail \in BOOLEAN :
          LET r == data_pool_alloc(heap, pool, dir, nodes, fail)
          IN  /\ heap' = r.heap
              /\ pool' = r.pool
              /\ dir' = r.dir
              /\ nodes' = r.nodes
              /\ ub' = ub \cup r.ub
              /\ returned' = IF r.ret = NullNode THEN returned
                             ELSE Append(returned, r.ret)
              /\ call' = [NoCall EXCEPT !.op = "alloc", !.ptr = P,
                                         !.oom = IF fail THEN 1 ELSE 0,
                                         !.ok = (r.ret # NullNode),
                                         !.node = r.ret, !.why = r.why]
    /\ tick' = 1 - tick
    /\ UNCHANGED <<P, phase, ncreate>>

\* The decoder writes the payload of the element it was given last.
Populate ==
    /\ phase = "live"
    /\ ~Populated
    /\ nodes' = [nodes EXCEPT ![Last(returned)[1]][Last(returned)[2]].data =
                                  Len(returned)]
    /\ UNCHANGED <<heap, P, pool, dir, phase, returned, call, tick, ub, ncreate>>

\* data_pool_destroy(P, keep_list), on the live pool or on NULL; the caller
\* drops its pointer.
Destroy ==
    /\ phase \in {"none", "live", "detached"}
    /\ \E keep_list \in BOOLEAN :
          /\ heap' = data_pool_destroy(heap, P, pool, dir, keep_list)
          /\ phase' = IF P = NULL THEN phase
                      ELSE IF keep_list THEN "detached" ELSE "done"
          /\ call' = [NoCall EXCEPT !.op = "destroy", !.ptr = P,
                                     !.keep = keep_list, !.ok = TRUE]
    /\ P' = NULL
    /\ tick' = 1 - tick
    /\ UNCHANGED <<pool, dir, nodes, returned, ub, ncreate>>

\* The pointers into the list the caller may hand to data_pool_list_destroy
\* once it has kept the list: the first element, as it should, or the last.
ListArgs ==
    IF phase = "detached" /\ returned # <<>>
    THEN {returned[1], Last(returned)} ELSE {}

\* data_pool_list_destroy(list) on the list the caller kept, or on NULL.
ListDestroy ==
    /\ phase \in {"none", "detached"}
    /\ \E list \in {NullNode} \cup ListArgs :
          LET r == data_pool_list_destroy(heap, nodes, list)
          IN  /\ heap' = r.heap
              /\ ub' = ub \cup r.ub
              /\ phase' = IF r.heap = heap THEN phase ELSE "done"
              /\ call' = [NoCall EXCEPT !.op = "list_destroy", !.list = list,
                                         !.ok = r.ret]
    /\ tick' = 1 - tick
    /\ UNCHANGED <<P, pool, dir, nodes, returned, ncreate>>

\* An error of the caller: it clears the head flag of the first element of
\* a block after the first.
Corrupt ==
    /\ phase \in {"live", "detached"}
    /\ \E k \in 2 .. Len(returned) :
          LET e == returned[k]
          IN  /\ e[2] = 0
              /\ Deref(nodes, e).head
              /\ nodes' = [nodes EXCEPT ![e[1]][e[2]].head = FALSE]
    /\ UNCHANGED <<heap, P, pool, dir, phase, returned, call, tick, ub, ncreate>>

Next == New \/ Alloc \/ Populate \/ Destroy \/ ListDestroy

Spec == Init /\ [][Next]_vars

NextCorrupt == New \/ Alloc \/ Populate \/ Destroy \/ ListDestroy \/ Corrupt

SpecCorrupt == Init /\ [][NextCorrupt]_vars

\* ------------------------------------------------- the guard on its own
\* The arguments of a can_multiply call: any three size_t values.
InitMul ==
    /\ heap = <<>>
    /\ P = NULL
    /\ pool = ZeroPool
    /\ dir = NoDir
    /\ nodes = <<>>
    /\ phase = "none"
    /\ returned = <<>>
    /\ call \in {[NoCall EXCEPT !.op = "args", !.max = a, !.m = b, !.n = c] :
                    a \in 0 .. SIZE_MAX, b \in 0 .. SIZE_MAX, c \in 0 .. SIZE_MAX}
    /\ tick = 0
    /\ ub = {}
    /\ ncreate = 0

\* ok = can_multiply(max, m, n)
CanMultiply ==
    /\ call.op = "args"
    /\ call' = [call EXCEPT !.op = "can_multiply",
                             !.ok = can_multiply(call.max, call.m, call.n)]
    /\ tick' = 1 - tick
    /\ UNCHANGED <<heap, P, pool, dir, nodes, phase, returned, ub, ncreate>>

SpecMul == InitMul /\ [][CanMultiply]_vars

\* ================================================================ claims
\* A step that is a call of the pool's interface.
ApiStep == tick' # tick

\* The blocks the returned elements lie in.
ChainBlocks == {returned[i][1] : i \in DOMAIN returned}

\* The allocation a after exactly one free of it.
FreedOnce(a) == [a EXCEPT !.live = FALSE, !.frees = 1]

\* The returned elements are pairwise distinct, next leads from each to the
\* one returned after it, and the last one's next is NULL.
ChainInCallOrder ==
    /\ \A i, j \in DOMAIN returned : i # j => returned[i] # returned[j]
    /\ \A i \in 1 .. Len(returned) - 1 :
          Deref(nodes, returned[i]).next = returned[i + 1]
    /\ Deref(nodes, Last(returned)).next = NullNode

\* C1: while the blocks are allocated, after n >= 1 successful
\* data_pool_alloc calls the n returned elements are pairwise distinct, next
\* leads from the first through all of them in call order, block boundaries
\* included, and the n-th element's next is NULL.
C1_ChainInCallOrder ==
    (returned # <<>> /\ phase \in {"live", "detached"}) => ChainInCallOrder

\* A chain over three blocks, the last one partly used.
C1_Witness ==
    /\ phase = "live"
    /\ Cardinality(ChainBlocks) = 3
    /\ pool.used < pool.size
    /\ call.op = "alloc"

\* s is positive and s elements fit size_t.
CreateFits(s) == s > 0 /\ s * NodeSize <= SIZE_MAX

\* The first data_pool_alloc on a pool: it takes element 0 of block 0 and
\* calls no allocator.
FirstAllocWithoutGrowth ==
    (ApiStep /\ call'.op = "alloc" /\ returned = <<>>) =>
        /\ call'.ok
        /\ call'.why = "ok"
        /\ call'.node = <<dir[0], 0>>
        /\ heap' = heap
        /\ pool'.index = 0
        /\ pool'.size = pool.size
        /\ pool'.used = 1

\* C2 as stated: data_pool_new(s) succeeds for every positive s, and the
\* first data_pool_alloc succeeds without growth.
C2_Original ==
    /\ []((call.op = "new" /\ call.size > 0) => call.ok)
    /\ [][FirstAllocWithoutGrowth]_vars

\* C2, amended: for every positive s such that s elements fit size_t,
\* data_pool_new(s) succeeds when no calloc fails, leaving index 0, size s,
\* used 0; and the first data_pool_alloc on a pool succeeds without growth
\* whatever the allocator would answer: it returns element 0 of block 0,
\* index stays 0, size stays s and used becomes 1.
C2_CreateThenFirstAlloc ==
    /\ []((call.op = "new" /\ CreateFits(call.size) /\ call.oom = 0) =>
            /\ call.ok
            /\ phase = "live"
            /\ pool.index = 0
            /\ pool.size = call.size
            /\ pool.used = 0
            /\ heap[dir[0]] = [kind |-> "block", n |-> call.size, live |-> TRUE,
                               frees |-> 0])
    /\ [][FirstAllocWithoutGrowth]_vars

\* The first alloc on a pool of the largest size that fits, the allocator
\* out of memory.
C2_Witness ==
    /\ call.op = "alloc"
    /\ call.oom = 1
    /\ Len(returned) = 1
    /\ pool.size = SIZE_MAX \div NodeSize
    /\ pool.used = 1

\* C3: data_pool_new fails when size is 0, when size elements do not fit
\* size_t, or when a calloc fails; and a failed data_pool_new has freed,
\* exactly once, every allocation it made and has touched no other one.
C3_CreateFailureReleases ==
    /\ []((/\ call.op = "new"
           /\ \/ call.size = 0
              \/ call.size * NodeSize > SIZE_MAX
              \/ call.oom # 0) => ~call.ok)
    /\ [][(ApiStep /\ call'.op = "new" /\ ~call'.ok) =>
            /\ P' = NULL
            /\ Len(heap') >= Len(heap)
            /\ \A o \in 1 .. Len(heap) : heap'[o] = heap[o]
            /\ \A o \in Len(heap) + 1 .. Len(heap') :
                  ~heap'[o].live /\ heap'[o].frees = 1]_vars

\* A data_pool_new whose third calloc, the one of block 0, fails.
C3_Witness ==
    /\ call.op = "new"
    /\ ~call.ok
    /\ call.oom = 3
    /\ call.size > 0
    /\ Len(heap) = 2

C5_AllocFailureLeavesPool ==
    [][(ApiStep /\ call'.op = "alloc" /\ ~call'.ok) =>
          /\ call'.node = NullNode
          /\ pool' = pool
          /\ dir' = dir
          /\ nodes' = nodes
          /\ heap' = heap
          /\ returned' = returned]_vars

\* A growth refused for want of memory on a pool that has grown before.
C5_Witness ==
    /\ call.op = "alloc"
    /\ ~call.ok
    /\ call.why = "nomem"
    /\ pool.index = 1
    /\ pool.used = pool.size

\* The pool is on the last slot of its directory and that block is full.
Exhausted ==
    /\ phase = "live"
    /\ pool.count = COUNT
    /\ pool.index + 1 = pool.count
    /\ pool.used = pool.size

\* The blocks allocated so far.
BlocksAllocated == {o \in 1 .. Len(heap) : heap[o].kind = "block"}

\* C6: once the active block is the last slot of the directory (index + 1 =
\* count) and is full, data_pool_alloc returns NULL whatever calloc would
\* answer, and the pool stays in that condition as long as it lives, so every
\* later data_pool_alloc returns NULL too; no more than count blocks are ever
\* allocated and index stays below count.
C6_DirectoryExhaustion ==
    /\ [](Cardinality(BlocksAllocated) <= COUNT)
    /\ [](phase = "live" => pool.count = COUNT /\ pool.index < pool.count)
    /\ [][(Exhausted /\ ApiStep /\ call'.op = "alloc") =>
            ~call'.ok /\ call'.why = "directory"]_vars
    /\ [][(Exhausted /\ phase' = "live") => Exhausted']_vars

\* A refusal on the full last slot although calloc would have answered.
C6_Witness ==
    /\ Exhausted
    /\ call.op = "alloc"
    /\ ~call.ok
    /\ call.oom = 0
    /\ Cardinality(BlocksAllocated) = COUNT

\* The allocations data_pool_destroy(P, keep_list) is to free.
DestroyFrees(keep_list) ==
    {P, pool.blocks} \cup
    (IF keep_list THEN {} ELSE {dir[i] : i \in 0 .. pool.index})

\* C7: data_pool_destroy on a pool frees the directory and the pool struct
\* exactly once each; with keep_list false it also frees each of blocks
\* 0..index exactly once, with keep_list true it frees no block; it touches
\* no other allocation, and on NULL it frees nothing.
C7_DestroyFrees ==
    [][(ApiStep /\ call'.op = "destroy") =>
          IF P = NULL THEN heap' = heap
          ELSE /\ Len(heap') = Len(heap)
               /\ \A o \in 1 .. Len(heap) :
                     IF o \in DestroyFrees(call'.keep)
                     THEN /\ heap[o].live
                          /\ heap[o].frees = 0
                          /\ heap'[o] = FreedOnce(heap[o])
                     ELSE heap'[o] = heap[o]]_vars

\* A full teardown of a pool of three blocks.
C7_Witness ==
    /\ call.op = "destroy"
    /\ call.ptr # NULL
    /\ ~call.keep
    /\ pool.index = 2
    /\ phase = "done"

\* C8: data_pool_destroy(pool, keep_list = true) leaves every element's head
\* flag, next link and payload as they were and every block allocated, so
\* that next still leads from the first returned element through all of them
\* in call order.
C8_DetachKeepsChain ==
    [][(ApiStep /\ call'.op = "destroy" /\ call'.keep /\ P # NULL) =>
          /\ nodes' = nodes
          /\ returned' = returned
          /\ \A b \in DOMAIN nodes : heap'[b].live
          /\ (returned # <<>> => ChainInCallOrder')]_vars

\* A detached chain over three blocks whose elements carry payloads.
C8_Witness ==
    /\ call.op = "destroy"
    /\ call.ptr # NULL
    /\ call.keep
    /\ phase = "detached"
    /\ Cardinality(ChainBlocks) = 3
    /\ Deref(nodes, returned[1]).data # 0

\* C9: data_pool_list_destroy on the first element of a chain built by a
\* pool returns true having freed every block of the chain exactly once and
\* nothing else, without an undefined operation; on NULL it returns true
\* and frees nothing.
C9_DisposeWellFormed ==
    [][(ApiStep /\ call'.op = "list_destroy") =>
          IF call'.list = NullNode THEN call'.ok /\ heap' = heap
          ELSE call'.list = returned[1] =>
                /\ call'.ok
                /\ ub' = {}
                /\ Len(heap') = Len(heap)
                /\ \A o \in 1 .. Len(heap) :
                      IF o \in ChainBlocks
                      THEN heap[o].live /\ heap'[o] = FreedOnce(heap[o])
                      ELSE heap'[o] = heap[o]]_vars

\* The disposal of a chain over three blocks, the last one partly used.
C9_Witness ==
    /\ call.op = "list_destroy"
    /\ returned # <<>>
    /\ call.list = returned[1]
    /\ call.ok
    /\ Cardinality(ChainBlocks) = 3
    /\ pool.used < pool.size
    /\ phase = "done"

\* The blocks of the chain after the first whose first element is not
\* flagged head.
Unflagged ==
    {b \in ChainBlocks : b # returned[1][1] /\ ~nodes[b][0].head}

\* data_pool_list_destroy is called on the first element of a chain over at
\* least two blocks, a later block's first element being unflagged.
DisposeOfUnflagged ==
    /\ ApiStep
    /\ call'.op = "list_destroy"
    /\ returned # <<>>
    /\ call'.list = returned[1]
    /\ Cardinality(ChainBlocks) >= 2
    /\ Unflagged # {}

\* C10 as stated: such a call returns false, having freed the blocks before
\* the first unflagged boundary and none from that boundary on.
C10_Original ==
    [][DisposeOfUnflagged =>
          /\ ~call'.ok
          /\ \A b \in ChainBlocks :
                IF \A u \in Unflagged : b < u
                THEN heap'[b] = FreedOnce(heap[b])
                ELSE heap'[b] = heap[b]]_vars

\* C10, amended: such a call returns true, not false: it frees exactly once
\* every block whose first element is flagged, those after an unflagged
\* boundary included, and it frees no block whose first element is
\* unflagged; it touches no other allocation.
C10_DisposeSkipsUnflagged ==
    [][DisposeOfUnflagged =>
          /\ call'.ok
          /\ Len(heap') = Len(heap)
          /\ \A o \in 1 .. Len(heap) :
                IF o \in ChainBlocks \ Unflagged
                THEN heap[o].live /\ heap'[o] = FreedOnce(heap[o])
                ELSE heap'[o] = heap[o]]_vars

\* The disposal of a chain over three blocks, the second one unflagged and
\* the third one flagged.
C10_Witness ==
    /\ call.op = "list_destroy"
    /\ returned # <<>>
    /\ call.list = returned[1]
    /\ Cardinality(ChainBlocks) = 3
    /\ Cardinality(Unflagged) = 1
    /\ \E b \in ChainBlocks : \A u \in Unflagged : b > u
    /\ phase = "done"

\* C11: can_multiply(max, 0, n) is false for every max and n, while
\* can_multiply(max, m, 0) is true for every max and every m > 0: a zero
\* first magnitude is refused, a zero second one is not.
C11_ZeroFirstMagnitude ==
    call.op = "can_multiply" =>
        /\ (call.m = 0 => ~call.ok)
        /\ (call.m > 0 /\ call.n = 0 => call.ok)

\* can_multiply(SIZE_MAX, 0, 0) is false although the product is 0.
C11_Witness ==
    /\ call.op = "can_multiply"
    /\ call.max = SIZE_MAX
    /\ call.m = 0
    /\ call.n = 0
    /\ ~call.ok

\* C12: for every max, every m > 0 and every n, can_multiply(max, m, n) is
\* true exactly when n <= max / m (integer division), which is exactly when
\* the product m * n, computed without wrapping, is at most max; so
\* can_multiply(SIZE_MAX, 1, SIZE_MAX) is true and
\* can_multiply(SIZE_MAX, 2, SIZE_MAX) is false.
C12_ExactProductBound ==
    (call.op = "can_multiply" /\ call.m > 0) =>
        /\ call.ok <=> call.n <= call.max \div call.m
        /\ call.ok <=> call.m * call.n <= call.max
        /\ (call.max = SIZE_MAX /\ call.m = 1 /\ call.n = SIZE_MAX => call.ok)
        /\ (call.max = SIZE_MAX /\ call.m = 2 /\ call.n = SIZE_MAX => ~call.ok)

\* can_multiply(SIZE_MAX, 2, SIZE_MAX), the second case of the test.
C12_Witness ==
    /\ call.op = "can_multiply"
    /\ call.max = SIZE_MAX
    /\ call.m = 2
    /\ call.n = SIZE_MAX
    /\ ~call.ok

\* 2 to the power k.
RECURSIVE Pow2(_)
Pow2(k) == IF k = 0 THEN 1 ELSE 2 * Pow2(k - 1)

\* C13: as long as a pool created with size s lives, block k has s * 2^k
\* elements for every k in 0..index, and size is s * 2^index.
C13_CapacitiesDouble ==
    /\ (call.op = "new" /\ call.ok) => heap[dir[0]].n = call.size
    /\ phase = "live" =>
          LET s == heap[dir[0]].n
          IN  /\ s > 0
              /\ \A k \in 0 .. pool.index :
                    /\ heap[dir[k]].n = s * Pow2(k)
                    /\ DOMAIN nodes[dir[k]] = 0 .. s * Pow2(k) - 1
              /\ pool.size = s * Pow2(pool.index)

\* A pool created with size 3 on its third block, of 12 elements.
C13_Witness ==
    /\ phase = "live"
    /\ pool.index = 2
    /\ pool.size = 12
    /\ heap[dir[0]].n = 3

\* C14: as long as a pool lives, index < count, the directory has count
\* slots of which 0..index hold allocated blocks and index+1..count-1 hold
\* NULL, and 0 <= used <= size, used being 0 only while index is 0 and no
\* data_pool_alloc has succeeded.
C14_PoolShape ==
    phase = "live" =>
        /\ pool.count = COUNT
        /\ pool.index >= 0
        /\ pool.index < pool.count
        /\ DOMAIN dir = 0 .. pool.count - 1
        /\ \A i \in 0 .. pool.index :
              /\ dir[i] \in 1 .. Len(heap)
              /\ heap[dir[i]].kind = "block"
              /\ heap[dir[i]].live
        /\ \A i, j \in 0 .. pool.index : i # j => dir[i] # dir[j]
        /\ \A i \in pool.index + 1 .. pool.count - 1 : dir[i] = NULL
        /\ pool.used >= 0
        /\ pool.used <= pool.size
        /\ (pool.used = 0 => pool.index = 0 /\ returned = <<>>)
        /\ (returned = <<>> => pool.used = 0)

\* A pool on its last slot, that block partly used.
C14_Witness ==
    /\ phase = "live"
    /\ pool.index = COUNT - 1
    /\ pool.used > 1
    /\ pool.used < pool.size

\* C15: in every block that was allocated, the first element has head set
\* and no other element has.
C15_OneHeadPerBlock ==
    \A b \in DOMAIN nodes :
        /\ heap[b].kind = "block"
        /\ \A i \in DOMAIN nodes[b] : nodes[b][i].head <=> i = 0

\* Three blocks, elements handed out of each, the last one beyond its first.
C15_Witness ==
    /\ phase = "live"
    /\ Cardinality(DOMAIN nodes) = 3
    /\ pool.used >= 2
    /\ call.op = "alloc"

\* C16: no size computation wraps.  Every block allocated has a capacity c
\* >= 1 with c * sizeof(element) <= SIZE_MAX; a growth happens only when
\* size * 2 <= SIZE_MAX and yields exactly size * 2; and where size * 2 or
\* the byte size of the new block would exceed SIZE_MAX, data_pool_alloc
\* and data_pool_new return NULL at the guard, before they call calloc.
C16_NoSizeWraps ==
    /\ [](\A o \in BlocksAllocated :
            heap[o].n >= 1 /\ heap[o].n * NodeSize <= SIZE_MAX)
    /\ [](phase = "live" => pool.size * NodeSize <= SIZE_MAX)
    /\ []((/\ call.op = "new"
           /\ call.size * NodeSize > SIZE_MAX
           /\ call.oom \notin {1, 2}) => ~call.ok /\ call.why = "overflow")
    /\ [][(ApiStep /\ call'.op = "alloc" /\ call'.why = "grow") =>
            /\ pool.size * 2 <= SIZE_MAX
            /\ pool'.size = pool.size * 2
            /\ pool'.size * NodeSize <= SIZE_MAX]_vars
    /\ [][(/\ ApiStep
           /\ call'.op = "alloc"
           /\ pool.used = pool.size
           /\ pool.index + 1 < pool.count
           /\ \/ pool.size * 2 > SIZE_MAX
              \/ pool.size * 2 * NodeSize > SIZE_MAX) =>
            /\ ~call'.ok
            /\ call'.why \in {"double", "bytes"}
            /\ heap' = heap]_vars

\* A growth refused at the guard although calloc would have answered.
C16_Witness ==
    /\ call.op = "alloc"
    /\ ~call.ok
    /\ call.why = "bytes"
    /\ call.oom = 0
    /\ pool.size * 2 * NodeSize > SIZE_MAX

\* C17: data_pool_list_destroy(list) returns false exactly when list is not
\* NULL and its head flag is not set, and a call that returns false has
\* freed nothing.
C17_DisposeFailsOnlyAtArgument ==
    [][(ApiStep /\ call'.op = "list_destroy") =>
          /\ ~call'.ok <=>
                (call'.list # NullNode /\ ~Deref(nodes, call'.list).head)
          /\ (~call'.ok => heap' = heap)]_vars

\* A refusal of the last element of a chain over three blocks.
C17_Witness ==
    /\ call.op = "list_destroy"
    /\ ~call.ok
    /\ call.list # NullNode
    /\ Cardinality(ChainBlocks) = 3
    /\ phase = "detached"

\* C18: data_pool_list_destroy reads no element of a block it has freed and
\* frees no block twice, nor anything that is not a block's start: no
\* undefined operation is ever performed and no allocation is freed more
\* than once.
C18_NoUseAfterFree ==
    /\ ub = {}
    /\ \A o \in 1 .. Len(heap) : heap[o].frees <= 1

\* A disposal that went through three blocks, freeing each after the scan
\* for the next one.
C18_Witness ==
    /\ call.op = "list_destroy"
    /\ call.ok
    /\ phase = "done"
    /\ Cardinality({b \in ChainBlocks : heap[b].frees = 1}) = 3

\* The allocations of the pool: its struct, its directory and blocks
\* 0..index.
PoolAllocations ==
    {pool.blocks - 1, pool.blocks} \cup {dir[i] : i \in 0 .. pool.index}

\* The heap as it was while the pool lived.
HeapBeforeTeardown ==
    [o \in 1 .. Len(heap) |->
        IF o \in PoolAllocations
        THEN [heap[o] EXCEPT !.live = TRUE, !.frees = 0] ELSE heap[o]]

\* C19: for a pool on which a data_pool_alloc succeeded, data_pool_destroy
\* with keep_list true followed by data_pool_list_destroy of the first
\* returned element leaves the heap exactly as data_pool_destroy with
\* keep_list false alone would have: the pool struct, the directory and
\* each of blocks 0..index freed exactly once, and no block allocated.
C19_TeardownPathsAgree ==
    (/\ phase = "done"
     /\ call.op = "list_destroy"
     /\ returned # <<>>
     /\ call.list = returned[1]) =>
        /\ call.ok
        /\ heap = data_pool_destroy(HeapBeforeTeardown, pool.blocks - 1, pool,
                                    dir, FALSE)
        /\ heap[pool.blocks - 1].kind = "pool"
        /\ heap[pool.blocks].kind = "dir"
        /\ \A o \in PoolAllocations : ~heap[o].live /\ heap[o].frees = 1
        /\ \A o \in BlocksAllocated : ~heap[o].live /\ o \in PoolAllocations

\* Detach, then disposal, of a pool of three blocks.
C19_Witness ==
    /\ phase = "done"
    /\ call.op = "list_destroy"
    /\ returned # <<>>
    /\ call.list = returned[1]
    /\ pool.index = 2
    /\ Cardinality(PoolAllocations) = 5

====
